---- MODULE Spec2Model ----
(***************************************************************************)
(* Syscall event subscription and probe lifecycle of the capsule8 sensor   *)
(* (pkg/sensor/syscall.go): the filter rewriter, the id-filter validator,  *)
(* the per-direction filter union and the registration pass with its       *)
(* shared, reference-counted dummy (sentinel) tracepoint.                  *)
(***************************************************************************)
EXTENDS Integers, Sequences, FiniteSets, TLC

\* ------------------------------------------------------------------ bounds

\* number of subscriptions that register and unregister concurrently
NumSubs == 2
\* registration passes one subscription may run during a behaviour
MaxPasses == 2
\* filter specs in one request
MaxFilters == 2
\* nesting depth of the expression trees handed to containsIDFilter
MaxDepth == 2

\* --------------------------------------------------------- api.Expression

\* a nil *api.Expression
NIL == [type |-> "NIL"]

Identifier(name) == [type |-> "IDENTIFIER", name |-> name]

Value(v) == [type |-> "VALUE", value |-> v]

newBinaryExpr(t, lhs, rhs) == [type |-> t, lhs |-> lhs, rhs |-> rhs]

Equal(lhs, rhs) == newBinaryExpr("EQ", lhs, rhs)

\* a nil operand is the neutral element: the other operand is returned
LogicalAnd(lhs, rhs) ==
    IF lhs.type = "NIL" THEN rhs
    ELSE IF rhs.type = "NIL" THEN lhs
    ELSE newBinaryExpr("LOGICAL_AND", lhs, rhs)

LogicalOr(lhs, rhs) ==
    IF lhs.type = "NIL" THEN rhs
    ELSE IF rhs.type = "NIL" THEN lhs
    ELSE newBinaryExpr("LOGICAL_OR", lhs, rhs)

\* the fields a sample of each direction carries (syscallEnterEventTypes,
\* syscallExitEventTypes)
syscallEnterEventTypes == {"id", "arg0", "arg1", "arg2", "arg3", "arg4", "arg5"}

syscallExitEventTypes == {"id", "ret"}

\* Evaluation of a filter on a sample (a function from field names to
\* values): a comparison matches when its left operand is a field of the
\* sample, its right operand a constant, and the two compare as the node
\* says; a malformed node matches nothing.
RECURSIVE Matches(_, _)
Matches(expr, sample) ==
    CASE expr.type = "LOGICAL_AND" ->
            Matches(expr.lhs, sample) /\ Matches(expr.rhs, sample)
      [] expr.type = "LOGICAL_OR" ->
            Matches(expr.lhs, sample) \/ Matches(expr.rhs, sample)
      [] expr.type = "EQ" ->
            /\ expr.lhs.type = "IDENTIFIER"
            /\ expr.rhs.type = "VALUE"
            /\ expr.lhs.name \in DOMAIN sample
            /\ sample[expr.lhs.name] = expr.rhs.value
      [] expr.type = "NE" ->
            /\ expr.lhs.type = "IDENTIFIER"
            /\ expr.rhs.type = "VALUE"
            /\ expr.lhs.name \in DOMAIN sample
            /\ sample[expr.lhs.name] # expr.rhs.value
      [] OTHER -> FALSE

\* ------------------------------------------------------- containsIDFilter

\* containsIDFilter accepting every comparison, whatever field it names
RECURSIVE containsIDFilterAnyField(_)
containsIDFilterAnyField(expr) ==
    IF expr.type = "NIL" THEN FALSE
    ELSE CASE expr.type = "LOGICAL_AND" ->
                 containsIDFilterAnyField(expr.lhs)
                     \/ containsIDFilterAnyField(expr.rhs)
           [] expr.type = "LOGICAL_OR" ->
                 containsIDFilterAnyField(expr.lhs)
                     /\ containsIDFilterAnyField(expr.rhs)
           [] expr.type = "EQ" ->
                 IF expr.lhs.type # "IDENTIFIER" THEN FALSE ELSE TRUE
           [] OTHER -> FALSE

\* containsIDFilter treating OR like AND: one constrained branch is enough
RECURSIVE containsIDFilterOrAsAnd(_)
containsIDFilterOrAsAnd(expr) ==
    IF expr.type = "NIL" THEN FALSE
    ELSE CASE expr.type \in {"LOGICAL_AND", "LOGICAL_OR"} ->
                 containsIDFilterOrAsAnd(expr.lhs)
                     \/ containsIDFilterOrAsAnd(expr.rhs)
           [] expr.type = "EQ" ->
                 IF expr.lhs.type # "IDENTIFIER" THEN FALSE
                 ELSE IF expr.lhs.name # "id" THEN FALSE
                 ELSE TRUE
           [] OTHER -> FALSE

RECURSIVE containsIDFilter(_)
containsIDFilter(expr) ==
    IF expr.type = "NIL" THEN FALSE
    ELSE CASE expr.type = "LOGICAL_AND" ->
                 containsIDFilter(expr.lhs) \/ containsIDFilter(expr.rhs)
           [] expr.type = "LOGICAL_OR" ->
                 containsIDFilter(expr.lhs) /\ containsIDFilter(expr.rhs)
           [] expr.type = "EQ" ->
                 IF expr.lhs.type # "IDENTIFIER" THEN FALSE
                 ELSE IF expr.lhs.name # "id" THEN FALSE
                 ELSE TRUE
           [] OTHER -> FALSE

\* ---------------------------------------------- rewriteSyscallEventFilter

\* an optional scalar field of api.SyscallEventFilter: <<>> is the nil
\* pointer, <<v>> a wrapper holding v
Unset == <<>>

\* RewriteField that forgets to clear the legacy field
RewriteFieldKeep(sef, field, name) ==
    IF sef[field] # <<>>
    THEN [sef EXCEPT
            !.FilterExpression =
                LogicalAnd(Equal(Identifier(name), Value(sef[field][1])),
                           sef.FilterExpression)]
    ELSE sef

\* one "if sef.F != nil { ... }" block: fold F == value into the expression
\* (new constraint on the left) and clear the field
RewriteField(sef, field, name) ==
    IF sef[field] # Unset
    THEN [sef EXCEPT
            !.FilterExpression =
                LogicalAnd(Equal(Identifier(name), Value(sef[field][1])),
                           sef.FilterExpression),
            ![field] = Unset]
    ELSE sef

\* rewriteSyscallEventFilter that folds Id into the expression but leaves
\* the field set
rewriteSyscallEventFilterKeepId(sef) ==
    LET s0 == RewriteFieldKeep(sef, "Id", "id")
    IN  IF s0.Type = "ENTER"
        THEN LET s1 == RewriteField(s0, "Arg0", "arg0")
                 s2 == RewriteField(s1, "Arg1", "arg1")
                 s3 == RewriteField(s2, "Arg2", "arg2")
                 s4 == RewriteField(s3, "Arg3", "arg3")
                 s5 == RewriteField(s4, "Arg4", "arg4")
             IN  RewriteField(s5, "Arg5", "arg5")
        ELSE IF s0.Type = "EXIT"
        THEN RewriteField(s0, "Ret", "ret")
        ELSE s0

rewriteSyscallEventFilter(sef) ==
    LET s0 == RewriteField(sef, "Id", "id")
    IN  IF s0.Type = "ENTER"
        THEN LET s1 == RewriteField(s0, "Arg0", "arg0")
                 s2 == RewriteField(s1, "Arg1", "arg1")
                 s3 == RewriteField(s2, "Arg2", "arg2")
                 s4 == RewriteField(s3, "Arg3", "arg3")
                 s5 == RewriteField(s4, "Arg4", "arg4")
             IN  RewriteField(s5, "Arg5", "arg5")
        ELSE IF s0.Type = "EXIT"
        THEN RewriteField(s0, "Ret", "ret")
        ELSE s0

\* ------------------------------------------------------------------ state

Subs == 1..NumSubs

\* kernel major versions the sensor may run on (sys.KernelVersion)
Majors == {2, 3}

syscallNewEnterKprobeAddress == "syscall_trace_enter_phase1"

syscallOldEnterKprobeAddress == "syscall_trace_enter"

syscallEnterKprobeFetchargs ==
    "id=+120(%di):s64 arg0=+112(%di):u64 arg1=+104(%di):u64 arg2=+96(%di):u64 arg3=+56(%di):u64 arg4=+72(%di):u64 arg5=+64(%di):u64"

VARIABLES
    major,                   \* major kernel version of the host
    dummySyscallEventCount,  \* sensor.dummySyscallEventCount
    dummySyscallEventID,     \* sensor.dummySyscallEventID
    registered,              \* events registered with sensor.Monitor
    unregisterCalls,         \* event id -> number of UnregisterEvent calls
    subscr,                  \* per subscription: position, locals, sinks, log
    fnIn,                    \* input of the pure function under check
    fnOut                    \* its output, once applied

vars == <<major, dummySyscallEventCount, dummySyscallEventID, registered,
          unregisterCalls, subscr, fnIn, fnOut>>

\* an api.SyscallEventFilter
Filter(type, id, arg0, ret, expr) ==
    [Type |-> type, Id |-> id, Arg0 |-> arg0, Arg1 |-> Unset, Arg2 |-> Unset,
     Arg3 |-> Unset, Arg4 |-> Unset, Arg5 |-> Unset, Ret |-> ret,
     FilterExpression |-> expr]

\* a diagnostic handed to subscr.logStatus
Status(code, msg, name) == [code |-> code, msg |-> msg, name |-> name]

\* one call made on the monitor, the subscription or the shared counter
Call(op, name, id, ok) ==
    [op |-> op, name |-> name, args |-> "", id |-> id, ok |-> ok]

\* Sensor.RegisterKprobe(symbol, false, fetchargs, ...)
KprobeCall(symbol, fetchargs, id, ok) ==
    [op |-> "RegisterKprobe", name |-> symbol, args |-> fetchargs,
     id |-> id, ok |-> ok]

\* ------------------------------------- registerSyscallEvents: filter loop

\* the loop body without its "continue": a rejected filter is reported and
\* then unioned like an accepted one
LoopBodyNoContinue(acc, sef0) ==
    LET sef == rewriteSyscallEventFilter(sef0)
        seen == [acc EXCEPT
                    !.events = Append(@, sef),
                    !.log = IF ~containsIDFilter(sef.FilterExpression)
                            THEN Append(@, Status("INVALID_ARGUMENT",
                                     "Wildcard syscall filter ignored", ""))
                            ELSE @]
    IN  CASE sef.Type = "ENTER" ->
                [seen EXCEPT !.enterFilter =
                    LogicalOr(@, sef.FilterExpression)]
          [] sef.Type = "EXIT" ->
                [seen EXCEPT !.exitFilter =
                    LogicalOr(@, sef.FilterExpression)]
          [] OTHER ->
                [seen EXCEPT !.log = Append(@,
                    Status("INVALID_ARGUMENT", "SyscallEventType is invalid", ""))]

\* the loop body rejecting only a missing expression instead of asking
\* containsIDFilter
LoopBodyRejectNilOnly(acc, sef0) ==
    LET sef == rewriteSyscallEventFilter(sef0)
        seen == [acc EXCEPT !.events = Append(@, sef)]
    IN  IF sef.FilterExpression.type = "NIL"
        THEN [seen EXCEPT !.log = Append(@,
                 Status("INVALID_ARGUMENT", "Wildcard syscall filter ignored", ""))]
        ELSE CASE sef.Type = "ENTER" ->
                    [seen EXCEPT !.enterFilter =
                        LogicalOr(@, sef.FilterExpression)]
               [] sef.Type = "EXIT" ->
                    [seen EXCEPT !.exitFilter =
                        LogicalOr(@, sef.FilterExpression)]
               [] OTHER ->
                    [seen EXCEPT !.log = Append(@,
                        Status("INVALID_ARGUMENT", "SyscallEventType is invalid", ""))]

\* the loop body dropping a rejected filter without telling the subscriber
LoopBodySilent(acc, sef0) ==
    LET sef == rewriteSyscallEventFilter(sef0)
        seen == [acc EXCEPT !.events = Append(@, sef)]
    IN  IF ~containsIDFilter(sef.FilterExpression)
        THEN seen
        ELSE CASE sef.Type = "ENTER" ->
                    [seen EXCEPT !.enterFilter =
                        LogicalOr(@, sef.FilterExpression)]
               [] sef.Type = "EXIT" ->
                    [seen EXCEPT !.exitFilter =
                        LogicalOr(@, sef.FilterExpression)]
               [] OTHER ->
                    [seen EXCEPT !.log = Append(@,
                        Status("INVALID_ARGUMENT", "SyscallEventType is invalid", ""))]

\* the loop body assigning the accepted filter instead of OR-ing it into the
\* union: the last filter of a direction wins
LoopBodyLastWins(acc, sef0) ==
    LET sef == rewriteSyscallEventFilter(sef0)
        seen == [acc EXCEPT !.events = Append(@, sef)]
    IN  IF ~containsIDFilter(sef.FilterExpression)
        THEN [seen EXCEPT !.log = Append(@,
                 Status("INVALID_ARGUMENT", "Wildcard syscall filter ignored", ""))]
        ELSE CASE sef.Type = "ENTER" ->
                    [seen EXCEPT !.enterFilter = sef.FilterExpression]
               [] sef.Type = "EXIT" ->
                    [seen EXCEPT !.exitFilter = sef.FilterExpression]
               [] OTHER ->
                    [seen EXCEPT !.log = Append(@,
                        Status("INVALID_ARGUMENT", "SyscallEventType is invalid", ""))]

\* body of "for _, sef := range events": rewrite in place, validate, union
LoopBody(acc, sef0) ==
    LET sef == rewriteSyscallEventFilter(sef0)
        seen == [acc EXCEPT !.events = Append(@, sef)]
    IN  IF ~containsIDFilter(sef.FilterExpression)
        THEN [seen EXCEPT !.log = Append(@,
                 Status("INVALID_ARGUMENT", "Wildcard syscall filter ignored", ""))]
        ELSE CASE sef.Type = "ENTER" ->
                    [seen EXCEPT !.enterFilter =
                        LogicalOr(@, sef.FilterExpression)]
               [] sef.Type = "EXIT" ->
                    [seen EXCEPT !.exitFilter =
                        LogicalOr(@, sef.FilterExpression)]
               [] OTHER ->
                    [seen EXCEPT !.log = Append(@,
                        Status("INVALID_ARGUMENT", "SyscallEventType is invalid", ""))]

RECURSIVE FilterLoop(_, _, _)
FilterLoop(events, i, acc) ==
    IF i > Len(events) THEN acc
    ELSE FilterLoop(events, i + 1, LoopBody(acc, events[i]))

UnionFilters(events) ==
    FilterLoop(events, 1,
        [events |-> <<>>, enterFilter |-> NIL, exitFilter |-> NIL, log |-> <<>>])

\* ------------------------------------------------ monitor and subscription

\* event ids the monitor can hand out within the bounds; 0 is the zero value
\* of sensor.dummySyscallEventID and names no event
EventIDs == 0..(3 * NumSubs * MaxPasses)

\* a subscription that is not registered
IdleSub ==
    [pc |-> "idle", events |-> <<>>, enterFilter |-> NIL, exitFilter |-> NIL,
     eventID |-> 0, hookEventID |-> 0, log |-> <<>>, calls |-> <<>>,
     eventSinks |-> {}, npass |-> 0]

\* the id the monitor hands out for the n-th event (n in 1..3: dummy, enter
\* kprobe, exit tracepoint) of the current pass of subscription p: ids are
\* never reused, so every registration gets an id of its own
NewEventID(p, n) == 3 * ((p - 1) * MaxPasses + (subscr[p].npass - 1)) + n

\* Monitor.RegisterTracepoint / Sensor.RegisterKprobe succeeding: the new
\* event, in the given event group
NewEvent(id, kind, name, group) ==
    [id |-> id, kind |-> kind, name |-> name, group |-> group]

\* Monitor.UnregisterEvent(id): the event, if any, is gone
UnregisterEvent(id) ==
    /\ registered' = {e \in registered : e.id # id}
    /\ unregisterCalls' = [unregisterCalls EXCEPT ![id] = @ + 1]

\* the exit branch written as the else of the enter branch: a request with
\* an enter filter never gets its exit direction
ExitOrDoneElse(s) ==
    IF s.exitFilter.type # "NIL" /\ s.enterFilter.type = "NIL"
    THEN "l347" ELSE "done"

\* where the pass goes once the enter direction is finished (line 345)
ExitOrDone(s) == IF s.exitFilter.type # "NIL" THEN "l347" ELSE "done"

\* the filter specs of the requests of the concurrent model
legacyEnter == Filter("ENTER", <<2>>, Unset, Unset, NIL)

legacyEnter3 == Filter("ENTER", <<3>>, Unset, Unset, NIL)

wildcardEnter == Filter("ENTER", Unset, <<4>>, Unset, NIL)

exprExit == Filter("EXIT", Unset, Unset, <<0>>,
                   Equal(Identifier("id"), Value(3)))

badType == Filter("UNKNOWN", <<2>>, Unset, Unset, NIL)

orEnter == Filter("ENTER", Unset, <<4>>, Unset,
                  newBinaryExpr("LOGICAL_OR",
                      Equal(Identifier("id"), Value(2)),
                      Equal(Identifier("id"), Value(3))))

halfOrEnter == Filter("ENTER", Unset, Unset, Unset,
                      newBinaryExpr("LOGICAL_OR",
                          Equal(Identifier("id"), Value(2)),
                          Equal(Identifier("arg0"), Value(4))))

FilterPool ==
    {legacyEnter, legacyEnter3, wildcardEnter, exprExit, badType, orEnter,
     halfOrEnter}

SeqsUpTo(S, n) == UNION {[1..k -> S] : k \in 1..n}

\* every request of up to MaxFilters filter specs
Requests == SeqsUpTo(FilterPool, MaxFilters)

\* the requests of the subscriptions that run concurrently: one asking for
\* the enter direction, one (with a rejected filter) for the exit direction
ConcurrentRequests == {<<legacyEnter>>, <<wildcardEnter, exprExit>>}

\* ------------------------------------------ registerSyscallEvents: a pass

\* lines 213-246: the filter loop, then the choice of the enter branch
Subscribe(p, requests) ==
    /\ subscr[p].pc = "idle"
    /\ subscr[p].npass < MaxPasses
    /\ \E events \in requests :
        LET r == UnionFilters(events)
            s == [subscr[p] EXCEPT
                    !.events = r.events, !.enterFilter = r.enterFilter,
                    !.exitFilter = r.exitFilter, !.log = r.log,
                    !.calls = <<>>, !.eventID = 0, !.npass = @ + 1]
        IN  subscr' = [subscr EXCEPT ![p] = [s EXCEPT !.pc =
                IF r.enterFilter.type # "NIL"
                THEN (IF major < 3 THEN "l264" ELSE "l280")
                ELSE ExitOrDone(s)]]
    /\ UNCHANGED <<major, dummySyscallEventCount, dummySyscallEventID,
                   registered, unregisterCalls, fnIn, fnOut>>

\* lines 264-267 and 270-279 (major < 3): the dummy event in the
\* subscription's own event group, first candidate then second
RegisterDummyInGroup(p, at, eventName, onFail) ==
    /\ subscr[p].pc = at
    /\ \E ok \in BOOLEAN :
        IF ok
        THEN /\ registered' = registered \cup
                    {NewEvent(NewEventID(p, 1), "tracepoint", eventName, p)}
             /\ subscr' = [subscr EXCEPT
                    ![p].eventID = NewEventID(p, 1),
                    ![p].calls = Append(@, Call("RegisterTracepoint",
                                     eventName,
                                     NewEventID(p, 1), TRUE)),
                    ![p].pc = "l303"]
        ELSE /\ UNCHANGED registered
             /\ subscr' = [subscr EXCEPT
                    ![p].calls = Append(@, Call("RegisterTracepoint",
                                     eventName, 0, FALSE)),
                    ![p].log = IF onFail = "l303"
                               THEN Append(@, Status("UNKNOWN",
                                   "Could not register dummy syscall event",
                                   eventName))
                               ELSE @,
                    ![p].pc = onFail]
    /\ UNCHANGED <<major, dummySyscallEventCount, dummySyscallEventID,
                   unregisterCalls, fnIn, fnOut>>

RegisterDummyOldRaw(p) ==
    RegisterDummyInGroup(p, "l264", "raw_syscalls/sys_enter", "l270")

RegisterDummyOld(p) ==
    RegisterDummyInGroup(p, "l270", "syscalls/sys_enter", "l303")

\* line 280 (major >= 3): atomic.AddInt64(&count, 1) == 1
AddDummyRef(p) ==
    /\ subscr[p].pc = "l280"
    /\ dummySyscallEventCount' = dummySyscallEventCount + 1
    /\ subscr' = [subscr EXCEPT
            ![p].calls = Append(@, Call("AddInt64", "+1",
                                        dummySyscallEventCount', TRUE)),
            ![p].pc = IF dummySyscallEventCount' = 1 THEN "l281" ELSE "l303"]
    /\ UNCHANGED <<major, dummySyscallEventID, registered,
                   unregisterCalls, fnIn, fnOut>>

\* lines 281-288: the shared dummy event, in event group 0
RegisterDummy(p) ==
    /\ subscr[p].pc = "l281"
    /\ \E ok \in BOOLEAN :
        IF ok
        THEN /\ registered' = registered \cup
                    {NewEvent(NewEventID(p, 1), "tracepoint", "raw_syscalls/sys_enter", 0)}
             /\ subscr' = [subscr EXCEPT
                    ![p].eventID = NewEventID(p, 1),
                    ![p].calls = Append(@, Call("RegisterTracepoint",
                                     "raw_syscalls/sys_enter",
                                     NewEventID(p, 1), TRUE)),
                    ![p].pc = "l291"]
        ELSE /\ UNCHANGED registered
             /\ subscr' = [subscr EXCEPT
                    ![p].calls = Append(@, Call("RegisterTracepoint",
                                     "raw_syscalls/sys_enter", 0, FALSE)),
                    ![p].log = Append(@, Status("UNKNOWN",
                                   "Could not register dummy syscall event",
                                   "raw_syscalls/sys_enter")),
                    ![p].pc = "l289"]
    /\ UNCHANGED <<major, dummySyscallEventCount, dummySyscallEventID,
                   unregisterCalls, fnIn, fnOut>>

\* line 289: atomic.AddInt64(&count, -1) after the failed registration
ReleaseFailedDummy(p) ==
    /\ subscr[p].pc = "l289"
    /\ dummySyscallEventCount' = dummySyscallEventCount - 1
    /\ subscr' = [subscr EXCEPT
            ![p].calls = Append(@, Call("AddInt64", "-1",
                                        dummySyscallEventCount', TRUE)),
            ![p].pc = "l303"]
    /\ UNCHANGED <<major, dummySyscallEventID, registered,
                   unregisterCalls, fnIn, fnOut>>

\* line 291: sensor.dummySyscallEventID = eventID
StoreDummyID(p) ==
    /\ subscr[p].pc = "l291"
    /\ dummySyscallEventID' = subscr[p].eventID
    /\ subscr' = [subscr EXCEPT ![p].pc = "l303"]
    /\ UNCHANGED <<major, dummySyscallEventCount, registered,
                   unregisterCalls, fnIn, fnOut>>

\* lines 302-307 and 308-320: the enter kprobe, new symbol then old symbol
RegisterEnterKprobe(p, at, kprobeSymbol, onFail) ==
    /\ subscr[p].pc = at
    /\ \E ok \in BOOLEAN :
        IF ok
        THEN /\ registered' = registered \cup
                    {NewEvent(NewEventID(p, 2), "kprobe", kprobeSymbol, p)}
             /\ subscr' = [subscr EXCEPT
                    ![p].eventID = NewEventID(p, 2),
                    ![p].calls = Append(@, KprobeCall(kprobeSymbol,
                                     syscallEnterKprobeFetchargs,
                                     NewEventID(p, 2), TRUE)),
                    ![p].pc = "l321"]
        ELSE /\ UNCHANGED registered
             /\ subscr' = [subscr EXCEPT
                    ![p].eventID = 0,
                    ![p].calls = Append(@, KprobeCall(kprobeSymbol,
                                     syscallEnterKprobeFetchargs, 0, FALSE)),
                    ![p].log = IF onFail = "l345"
                               THEN Append(@, Status("UNKNOWN",
                                   "Could not register syscall enter kprobe",
                                   kprobeSymbol))
                               ELSE @,
                    ![p].pc = IF onFail = "l345"
                              THEN ExitOrDone(subscr[p]) ELSE onFail]
    /\ UNCHANGED <<major, dummySyscallEventCount, dummySyscallEventID,
                   unregisterCalls, fnIn, fnOut>>

\* the first kprobe attempt giving up without trying the old symbol
RegisterEnterKprobeNewOnly(p) ==
    RegisterEnterKprobe(p, "l303", syscallNewEnterKprobeAddress, "l345")

\* the first kprobe attempt without the "if err != nil" around the second:
\* the old symbol is tried after a success too
RegisterEnterKprobeNewFallThrough(p) ==
    /\ subscr[p].pc = "l303"
    /\ \E ok \in BOOLEAN :
        /\ registered' =
              IF ok
              THEN registered \cup
                     {NewEvent(NewEventID(p, 2), "kprobe",
                               syscallNewEnterKprobeAddress, p)}
              ELSE registered
        /\ subscr' = [subscr EXCEPT
              ![p].eventID = IF ok THEN NewEventID(p, 2) ELSE 0,
              ![p].calls = Append(@, KprobeCall(syscallNewEnterKprobeAddress,
                               syscallEnterKprobeFetchargs,
                               IF ok THEN NewEventID(p, 2) ELSE 0, ok)),
              ![p].pc = "l310"]
    /\ UNCHANGED <<major, dummySyscallEventCount, dummySyscallEventID,
                   unregisterCalls, fnIn, fnOut>>

RegisterEnterKprobeNew(p) ==
    RegisterEnterKprobe(p, "l303", syscallNewEnterKprobeAddress, "l310")

RegisterEnterKprobeOld(p) ==
    RegisterEnterKprobe(p, "l310", syscallOldEnterKprobeAddress, "l345")

\* subscr.addEventSink(eventID, filter, types): the sink, or an error when
\* the filter is not valid for the field types
EventSink(dir, eventID, filter, hook) ==
    [dir |-> dir, eventID |-> eventID, filter |-> filter, unregister |-> hook]

\* the enter sink getting the teardown hook on every kernel version
AddEnterSinkAlwaysHook(p) ==
    /\ subscr[p].pc = "l321"
    /\ \E ok \in BOOLEAN :
        IF ok
        THEN subscr' = [subscr EXCEPT
                ![p].eventSinks = @ \cup
                    {EventSink("enter", subscr[p].eventID,
                               subscr[p].enterFilter, TRUE)},
                ![p].calls = Append(@, Call("addEventSink", "enter",
                                            subscr[p].eventID, TRUE)),
                ![p].pc = ExitOrDone(subscr[p])]
        ELSE subscr' = [subscr EXCEPT
                ![p].calls = Append(@, Call("addEventSink", "enter",
                                            subscr[p].eventID, FALSE)),
                ![p].log = Append(@, Status("UNKNOWN",
                    "Invalid filter expression for syscall enter filter", "")),
                ![p].pc = "l327"]
    /\ UNCHANGED <<major, dummySyscallEventCount, dummySyscallEventID,
                   registered, unregisterCalls, fnIn, fnOut>>

\* lines 321-326 and 334-341: the enter sink; on kernels >= 3 it gets the
\* teardown hook
AddEnterSink(p) ==
    /\ subscr[p].pc = "l321"
    /\ \E ok \in BOOLEAN :
        IF ok
        THEN subscr' = [subscr EXCEPT
                ![p].eventSinks = @ \cup
                    {EventSink("enter", subscr[p].eventID,
                               subscr[p].enterFilter, major >= 3)},
                ![p].calls = Append(@, Call("addEventSink", "enter",
                                            subscr[p].eventID, TRUE)),
                ![p].pc = ExitOrDone(subscr[p])]
        ELSE subscr' = [subscr EXCEPT
                ![p].calls = Append(@, Call("addEventSink", "enter",
                                            subscr[p].eventID, FALSE)),
                ![p].log = Append(@, Status("UNKNOWN",
                    "Invalid filter expression for syscall enter filter", "")),
                ![p].pc = "l327"]
    /\ UNCHANGED <<major, dummySyscallEventCount, dummySyscallEventID,
                   registered, unregisterCalls, fnIn, fnOut>>

\* lines 327-329: unregister the kprobe just registered
RollbackKprobe(p) ==
    /\ subscr[p].pc = "l327"
    /\ UnregisterEvent(subscr[p].eventID)
    /\ subscr' = [subscr EXCEPT
            ![p].calls = Append(@, Call("UnregisterEvent", "",
                                        subscr[p].eventID, TRUE)),
            ![p].eventID = IF major >= 3 THEN dummySyscallEventID ELSE @,
            ![p].pc = IF major >= 3 THEN "l330" ELSE ExitOrDone(subscr[p])]
    /\ UNCHANGED <<major, dummySyscallEventCount, dummySyscallEventID, fnIn, fnOut>>

\* the rollback unregistering the dummy event without testing the count
RollbackDummyRefNoTest(p) ==
    /\ subscr[p].pc = "l330"
    /\ dummySyscallEventCount' = dummySyscallEventCount - 1
    /\ subscr' = [subscr EXCEPT
            ![p].calls = Append(@, Call("AddInt64", "-1",
                                        dummySyscallEventCount', TRUE)),
            ![p].pc = "l331"]
    /\ UNCHANGED <<major, dummySyscallEventID, registered,
                   unregisterCalls, fnIn, fnOut>>

\* line 330: atomic.AddInt64(&count, -1) == 0
RollbackDummyRef(p) ==
    /\ subscr[p].pc = "l330"
    /\ dummySyscallEventCount' = dummySyscallEventCount - 1
    /\ subscr' = [subscr EXCEPT
            ![p].calls = Append(@, Call("AddInt64", "-1",
                                        dummySyscallEventCount', TRUE)),
            ![p].pc = IF dummySyscallEventCount' = 0
                      THEN "l331" ELSE ExitOrDone(subscr[p])]
    /\ UNCHANGED <<major, dummySyscallEventID, registered,
                   unregisterCalls, fnIn, fnOut>>

\* line 331: UnregisterEvent(sensor.dummySyscallEventID)
RollbackDummy(p) ==
    /\ subscr[p].pc = "l331"
    /\ UnregisterEvent(dummySyscallEventID)
    /\ subscr' = [subscr EXCEPT
            ![p].calls = Append(@, Call("UnregisterEvent", "",
                                        dummySyscallEventID, TRUE)),
            ![p].pc = ExitOrDone(subscr[p])]
    /\ UNCHANGED <<major, dummySyscallEventCount, dummySyscallEventID, fnIn, fnOut>>

\* lines 346-349 and 350-359: the exit tracepoint, raw then per-syscall
RegisterExitTracepoint(p, at, eventName, onFail) ==
    /\ subscr[p].pc = at
    /\ \E ok \in BOOLEAN :
        IF ok
        THEN /\ registered' = registered \cup
                    {NewEvent(NewEventID(p, 3), "tracepoint", eventName, p)}
             /\ subscr' = [subscr EXCEPT
                    ![p].eventID = NewEventID(p, 3),
                    ![p].calls = Append(@, Call("RegisterTracepoint",
                                     eventName,
                                     NewEventID(p, 3), TRUE)),
                    ![p].pc = "l361"]
        ELSE /\ UNCHANGED registered
             /\ subscr' = [subscr EXCEPT
                    ![p].eventID = 0,
                    ![p].calls = Append(@, Call("RegisterTracepoint",
                                     eventName, 0, FALSE)),
                    ![p].log = IF onFail = "done"
                               THEN Append(@, Status("UNKNOWN",
                                   "Could not register tracepoint", eventName))
                               ELSE @,
                    ![p].pc = onFail]
    /\ UNCHANGED <<major, dummySyscallEventCount, dummySyscallEventID,
                   unregisterCalls, fnIn, fnOut>>

RegisterExitRaw(p) ==
    RegisterExitTracepoint(p, "l347", "raw_syscalls/sys_exit", "l352")

RegisterExit(p) ==
    RegisterExitTracepoint(p, "l352", "syscalls/sys_exit", "done")

\* the exit sink created with the enter union
AddExitSinkEnterFilter(p) ==
    /\ subscr[p].pc = "l361"
    /\ \E ok \in BOOLEAN :
        IF ok
        THEN subscr' = [subscr EXCEPT
                ![p].eventSinks = @ \cup
                    {EventSink("exit", subscr[p].eventID,
                               subscr[p].enterFilter, FALSE)},
                ![p].calls = Append(@, Call("addEventSink", "exit",
                                            subscr[p].eventID, TRUE)),
                ![p].pc = "done"]
        ELSE subscr' = [subscr EXCEPT
                ![p].calls = Append(@, Call("addEventSink", "exit",
                                            subscr[p].eventID, FALSE)),
                ![p].log = Append(@, Status("UNKNOWN",
                    "Invalid filter expression for syscall exit filter", "")),
                ![p].pc = "l367"]
    /\ UNCHANGED <<major, dummySyscallEventCount, dummySyscallEventID,
                   registered, unregisterCalls, fnIn, fnOut>>

\* lines 361-366: the exit sink
AddExitSink(p) ==
    /\ subscr[p].pc = "l361"
    /\ \E ok \in BOOLEAN :
        IF ok
        THEN subscr' = [subscr EXCEPT
                ![p].eventSinks = @ \cup
                    {EventSink("exit", subscr[p].eventID,
                               subscr[p].exitFilter, FALSE)},
                ![p].calls = Append(@, Call("addEventSink", "exit",
                                            subscr[p].eventID, TRUE)),
                ![p].pc = "done"]
        ELSE subscr' = [subscr EXCEPT
                ![p].calls = Append(@, Call("addEventSink", "exit",
                                            subscr[p].eventID, FALSE)),
                ![p].log = Append(@, Status("UNKNOWN",
                    "Invalid filter expression for syscall exit filter", "")),
                ![p].pc = "l367"]
    /\ UNCHANGED <<major, dummySyscallEventCount, dummySyscallEventID,
                   registered, unregisterCalls, fnIn, fnOut>>

\* line 367: unregister the exit tracepoint just registered
RollbackExit(p) ==
    /\ subscr[p].pc = "l367"
    /\ UnregisterEvent(subscr[p].eventID)
    /\ subscr' = [subscr EXCEPT
            ![p].calls = Append(@, Call("UnregisterEvent", "",
                                        subscr[p].eventID, TRUE)),
            ![p].pc = "done"]
    /\ UNCHANGED <<major, dummySyscallEventCount, dummySyscallEventID, fnIn, fnOut>>

\* ------------------------------------------------------------ unsubscribe

\* the subscription is closed: an enter sink that carries the teardown hook
\* (es.unregister, lines 335-340) has it called
Unsubscribe(p) ==
    /\ subscr[p].pc = "done"
    /\ subscr' = [subscr EXCEPT ![p].pc =
            IF \E es \in subscr[p].eventSinks : es.unregister
            THEN "l336" ELSE "close"]
    /\ UNCHANGED <<major, dummySyscallEventCount, dummySyscallEventID,
                   registered, unregisterCalls, fnIn, fnOut>>

\* line 336: eventID := sensor.dummySyscallEventID
HookReadDummyID(p) ==
    /\ subscr[p].pc = "l336"
    /\ subscr' = [subscr EXCEPT ![p].hookEventID = dummySyscallEventID,
                                ![p].pc = "l337"]
    /\ UNCHANGED <<major, dummySyscallEventCount, dummySyscallEventID,
                   registered, unregisterCalls, fnIn, fnOut>>

\* line 337: atomic.AddInt64(&count, -1) == 0
HookReleaseDummyRef(p) ==
    /\ subscr[p].pc = "l337"
    /\ dummySyscallEventCount' = dummySyscallEventCount - 1
    /\ subscr' = [subscr EXCEPT ![p].pc =
            IF dummySyscallEventCount' = 0 THEN "l338" ELSE "close"]
    /\ UNCHANGED <<major, dummySyscallEventID, registered,
                   unregisterCalls, fnIn, fnOut>>

\* line 338: UnregisterEvent(eventID)
HookUnregisterDummy(p) ==
    /\ subscr[p].pc = "l338"
    /\ UnregisterEvent(subscr[p].hookEventID)
    /\ subscr' = [subscr EXCEPT ![p].pc = "close"]
    /\ UNCHANGED <<major, dummySyscallEventCount, dummySyscallEventID, fnIn, fnOut>>

\* the subscription's sinks are dropped and its event group is removed from
\* the monitor, with the events registered in it
CloseSubscription(p) ==
    /\ subscr[p].pc = "close"
    /\ registered' = {e \in registered : e.group # p}
    /\ subscr' = [subscr EXCEPT ![p] =
            [IdleSub EXCEPT !.npass = subscr[p].npass]]
    /\ UNCHANGED <<major, dummySyscallEventCount, dummySyscallEventID, unregisterCalls, fnIn, fnOut>>

\* ---------------------------------------------------------- specification

NoFn == [type |-> "NONE"]

\* the sensor after construction, on a kernel of major version m
SensorInit(m) ==
    /\ major = m
    /\ dummySyscallEventCount = 0
    /\ dummySyscallEventID = 0
    /\ registered = {}
    /\ unregisterCalls = [id \in EventIDs |-> 0]
    /\ subscr = [p \in Subs |-> IdleSub]

Init ==
    /\ \E m \in Majors : SensorInit(m)
    /\ fnIn = NoFn
    /\ fnOut = NoFn

\* one step of a pass or of a teardown of subscription p
Step(p) ==
    \/ RegisterDummyOldRaw(p)
    \/ RegisterDummyOld(p)
    \/ AddDummyRef(p)
    \/ RegisterDummy(p)
    \/ ReleaseFailedDummy(p)
    \/ StoreDummyID(p)
    \/ RegisterEnterKprobeNew(p)
    \/ RegisterEnterKprobeOld(p)
    \/ AddEnterSink(p)
    \/ RollbackKprobe(p)
    \/ RollbackDummyRef(p)
    \/ RollbackDummy(p)
    \/ RegisterExitRaw(p)
    \/ RegisterExit(p)
    \/ AddExitSink(p)
    \/ RollbackExit(p)
    \/ Unsubscribe(p)
    \/ HookReadDummyID(p)
    \/ HookReleaseDummyRef(p)
    \/ HookUnregisterDummy(p)
    \/ CloseSubscription(p)

\* subscriptions registering and unregistering concurrently
Next == \E p \in Subs : Subscribe(p, ConcurrentRequests) \/ Step(p)

Spec == Init /\ [][Next]_vars

\* one subscription, every request
NextOne == Subscribe(1, Requests) \/ Step(1)

SpecOne == Init /\ [][NextOne]_vars

\* ------------------------------------------- the pure functions, applied

sensorVars == <<major, dummySyscallEventCount, dummySyscallEventID,
                registered, unregisterCalls, subscr>>

Atoms == {Equal(Identifier("id"), Value(2)), Equal(Identifier("arg0"), Value(4))}

\* the trees over AND, OR and the atoms, nested at most d deep
RECURSIVE Trees(_)
Trees(d) ==
    IF d = 0 THEN Atoms
    ELSE LET T == Trees(d - 1)
         IN  T \cup {newBinaryExpr(op, l, r) :
                        op \in {"LOGICAL_AND", "LOGICAL_OR"}, l \in T, r \in T}

\* a second id constraint; nodes of other kinds and comparisons whose left
\* operand is not the identifier; the missing expression
OtherNodes ==
    {Equal(Identifier("id"), Value(3)), Identifier("id"), Value(2),
     Equal(Value(2), Identifier("id")),
     Equal(Identifier("id"), Identifier("arg0")),
     newBinaryExpr("NE", Identifier("id"), Value(2))}

Expressions ==
    Trees(MaxDepth) \cup OtherNodes \cup {NIL}
      \cup {newBinaryExpr(op, l, r) :
               op \in {"LOGICAL_AND", "LOGICAL_OR"},
               l \in OtherNodes, r \in Atoms \cup OtherNodes}
      \cup {newBinaryExpr(op, l, r) :
               op \in {"LOGICAL_AND", "LOGICAL_OR"},
               l \in Atoms, r \in OtherNodes}

InitExpr ==
    /\ SensorInit(3)
    /\ fnIn \in Expressions
    /\ fnOut = NoFn

\* containsIDFilter(expr)
ApplyContainsIDFilter ==
    /\ fnOut.type = "NONE"
    /\ fnOut' = [type |-> "BOOL", value |-> containsIDFilter(fnIn)]
    /\ UNCHANGED <<sensorVars, fnIn>>

SpecExpr == InitExpr /\ [][ApplyContainsIDFilter]_vars

\* the filter specs handed to rewriteSyscallEventFilter
RewriteInputs ==
    [Type : {"ENTER", "EXIT", "UNKNOWN"},
     Id : {Unset, <<5>>},
     Arg0 : {Unset, <<4>>}, Arg1 : {Unset, <<4>>}, Arg2 : {Unset, <<4>>},
     Arg3 : {Unset, <<4>>}, Arg4 : {Unset, <<4>>}, Arg5 : {Unset, <<4>>},
     Ret : {Unset, <<0>>},
     FilterExpression : {NIL, Equal(Identifier("id"), Value(3)),
                         Equal(Identifier("arg1"), Value(4))}]

InitRewrite ==
    /\ SensorInit(3)
    /\ fnIn \in RewriteInputs
    /\ fnOut = NoFn

\* rewriteSyscallEventFilter(sef)
ApplyRewrite ==
    /\ fnOut.type = "NONE"
    /\ fnOut' = [type |-> "SPEC", value |-> rewriteSyscallEventFilter(fnIn)]
    /\ UNCHANGED <<sensorVars, fnIn>>

\* rewriteSyscallEventFilter(sef) once more, on the spec it has rewritten in
\* place: what a later pass over the same request does
ApplyRewriteAgain ==
    /\ fnOut.type = "SPEC"
    /\ fnOut' = [type |-> "SPEC2", once |-> fnOut.value,
                 value |-> rewriteSyscallEventFilter(fnOut.value)]
    /\ UNCHANGED <<sensorVars, fnIn>>

SpecRewrite == InitRewrite /\ [][ApplyRewrite \/ ApplyRewriteAgain]_vars

\* ------------------------------------------------------------ properties

\* no pass and no teardown hook is part-way through
Quiescent == \A p \in Subs : subscr[p].pc \in {"idle", "done"}

\* the shared dummy tracepoints (event group 0) the monitor holds
SentinelEvents ==
    {e \in registered : e.kind = "tracepoint" /\ e.group = 0}

\* the ids handed out for dummy tracepoints
IsDummyID(id) == id > 0 /\ id % 3 = 1

\* C1: on a kernel >= 3 sensor.dummySyscallEventCount is never negative,
\* whatever the interleaving of passes and teardown hooks and whichever
\* registrations fail.
C1_CountNeverNegative ==
    major >= 3 => dummySyscallEventCount >= 0

\* C2: on a kernel >= 3, in every quiescent state the dummy tracepoint is
\* registered with the monitor iff sensor.dummySyscallEventCount > 0.
C2_SentinelIffCount ==
    (major >= 3 /\ Quiescent) =>
        ((SentinelEvents # {}) <=> (dummySyscallEventCount > 0))

\* C3: on a kernel >= 3, under any interleaving of passes, rollbacks and
\* teardown hooks, no dummy event id is passed to UnregisterEvent more than
\* once (two subscriptions sharing the dummy event S unregister S exactly
\* once).
C3_UnregisteredAtMostOnce ==
    major >= 3 =>
        \A id \in EventIDs : IsDummyID(id) => unregisterCalls[id] <= 1

\* C4: on a kernel >= 3 at most one dummy tracepoint is registered with the
\* monitor at any time.
C4_AtMostOneSentinel ==
    major >= 3 => Cardinality(SentinelEvents) <= 1

\* ---- the enter rollback (C5)

\* positions in the call history of p's current pass of the calls with op
Positions(p, op) ==
    {i \in 1..Len(subscr[p].calls) : subscr[p].calls[i].op = op}

\* position of the failed enter addEventSink of p's current pass, 0 if none
EnterSinkFailedAt(p) ==
    LET F == {i \in Positions(p, "addEventSink") :
                 /\ subscr[p].calls[i].name = "enter"
                 /\ ~subscr[p].calls[i].ok}
    IN  IF F = {} THEN 0 ELSE CHOOSE i \in F : TRUE

\* the enter rollback of p's current pass has run to its end
RollbackDone(p) ==
    /\ EnterSinkFailedAt(p) > 0
    /\ subscr[p].pc \notin {"l327", "l330", "l331"}

\* the id of the dummy event p's current pass registered, 0 if none
DummyCreatedBy(p) ==
    LET R == {i \in Positions(p, "RegisterTracepoint") :
                 /\ subscr[p].calls[i].name = "raw_syscalls/sys_enter"
                 /\ subscr[p].calls[i].ok}
    IN  IF R = {} THEN 0 ELSE subscr[p].calls[CHOOSE i \in R : TRUE].id

\* no other subscription has ever started a pass
RunsAlone(p) == \A q \in Subs \ {p} : subscr[q].npass = 0

RegisteredIDs == {e.id : e \in registered}

KprobeCalls(p) ==
    SelectSeq(subscr[p].calls, LAMBDA c : c.op = "RegisterKprobe")

\* the enter direction of p's current pass is over
EnterOver(p) == subscr[p].pc \in {"l347", "l352", "l361", "l367", "done"}

\* diagnostics of p's current pass with the given code that name `name`
StatusCount(p, code, name) ==
    Cardinality({i \in 1..Len(subscr[p].log) :
                    /\ subscr[p].log[i].code = code
                    /\ subscr[p].log[i].name = name})

\* C6: with a non-empty enter filter the enter kprobe is first registered at
\* syscall_trace_enter_phase1; iff that fails exactly one more RegisterKprobe
\* is made, at syscall_trace_enter with the same fetchargs; if that fails
\* too, no enter kprobe and no enter sink exist and exactly one UNKNOWN
\* diagnostic naming syscall_trace_enter is logged.
C6_KprobeFallback ==
    \A p \in Subs :
        (EnterOver(p) /\ subscr[p].enterFilter.type # "NIL") =>
            LET k == KprobeCalls(p)
            IN  /\ Len(k) \in {1, 2}
                /\ k[1].name = "syscall_trace_enter_phase1"
                /\ k[1].args = syscallEnterKprobeFetchargs
                /\ (Len(k) = 2) <=> ~k[1].ok
                /\ Len(k) = 2 =>
                       /\ k[2].name = "syscall_trace_enter"
                       /\ k[2].args = k[1].args
                /\ ~k[Len(k)].ok =>
                       /\ \A e \in registered :
                              ~(e.kind = "kprobe" /\ e.group = p)
                       /\ \A es \in subscr[p].eventSinks : es.dir # "enter"
                       /\ Positions(p, "addEventSink") \subseteq
                              {i \in 1..Len(subscr[p].calls) :
                                  subscr[p].calls[i].name = "exit"}
                       /\ StatusCount(p, "UNKNOWN", "syscall_trace_enter") = 1
                /\ k[Len(k)].ok =>
                       StatusCount(p, "UNKNOWN", "syscall_trace_enter") = 0

\* C6 witness: both kprobe candidates failed in a finished enter direction
C6_Witness ==
    \E p \in Subs :
        /\ EnterOver(p)
        /\ Len(KprobeCalls(p)) = 2
        /\ ~KprobeCalls(p)[2].ok
        /\ StatusCount(p, "UNKNOWN", "syscall_trace_enter") = 1

\* ---- rejected filters (C7)

\* the rewritten filter specs of p's request that the validator rejected
Rejected(p) ==
    {i \in 1..Len(subscr[p].events) :
        ~containsIDFilter(subscr[p].events[i].FilterExpression)}

\* the OR of the expressions of the specs of the given direction, in request
\* order, leaving out the positions in `skip`
RECURSIVE UnionOf(_, _, _, _)
UnionOf(events, dir, skip, n) ==
    IF n = 0 THEN NIL
    ELSE LET rest == UnionOf(events, dir, skip, n - 1)
         IN  IF n \in skip \/ events[n].Type # dir THEN rest
             ELSE IF rest.type = "NIL" THEN events[n].FilterExpression
             ELSE [type |-> "LOGICAL_OR", lhs |-> rest,
                   rhs |-> events[n].FilterExpression]

WildcardStatus ==
    Status("INVALID_ARGUMENT", "Wildcard syscall filter ignored", "")

\* C7: every filter spec whose rewritten expression fails containsIDFilter
\* gets exactly one INVALID_ARGUMENT diagnostic, adds nothing to the enter or
\* exit union and causes no registration with the monitor; the other filters
\* of the request are unioned as if the rejected ones were absent.
C7_RejectedFilters ==
    \A p \in Subs :
        subscr[p].pc # "idle" =>
            LET evs == subscr[p].events
                n == Len(evs)
            IN  /\ Cardinality({i \in 1..Len(subscr[p].log) :
                        subscr[p].log[i] = WildcardStatus})
                     = Cardinality(Rejected(p))
                /\ subscr[p].enterFilter = UnionOf(evs, "ENTER", Rejected(p), n)
                /\ subscr[p].exitFilter = UnionOf(evs, "EXIT", Rejected(p), n)
                /\ (\A i \in 1..n : i \in Rejected(p) \/ evs[i].Type # "ENTER")
                     => /\ KprobeCalls(p) = <<>>
                        /\ \A i \in Positions(p, "RegisterTracepoint") :
                               subscr[p].calls[i].name \in
                                   {"raw_syscalls/sys_exit", "syscalls/sys_exit"}
                /\ (\A i \in 1..n : i \in Rejected(p) \/ evs[i].Type # "EXIT")
                     => \A i \in Positions(p, "RegisterTracepoint") :
                            subscr[p].calls[i].name \in
                                {"raw_syscalls/sys_enter", "syscalls/sys_enter"}
                /\ Rejected(p) = 1..n =>
                       /\ subscr[p].calls = <<>>
                       /\ subscr[p].eventSinks = {}
                       /\ \A e \in registered : e.group # p

\* C7 witness: a finished pass whose request held a rejected filter and an
\* accepted enter filter, which is registered with its sink
C7_Witness ==
    \E p \in Subs :
        /\ subscr[p].pc = "done"
        /\ Rejected(p) # {}
        /\ \E i \in 1..Len(subscr[p].events) :
               i \notin Rejected(p) /\ subscr[p].events[i].Type = "ENTER"
        /\ \E es \in subscr[p].eventSinks :
               es.dir = "enter" /\ es.filter = subscr[p].enterFilter

\* ---- containsIDFilter (C8, C9)

idEq2 == Equal(Identifier("id"), Value(2))

idEq3 == Equal(Identifier("id"), Value(3))

junk == Equal(Identifier("arg0"), Value(4))

\* the result the rules give for a tree: EQ by the name of its identifier
\* operand, AND by either operand, OR by both operands, false otherwise
RECURSIVE GuaranteesID(_)
GuaranteesID(e) ==
    IF e.type = "EQ"
    THEN e.lhs.type = "IDENTIFIER" /\ e.lhs.name = "id"
    ELSE IF e.type = "LOGICAL_AND"
    THEN GuaranteesID(e.lhs) \/ GuaranteesID(e.rhs)
    ELSE IF e.type = "LOGICAL_OR"
    THEN GuaranteesID(e.lhs) /\ GuaranteesID(e.rhs)
    ELSE FALSE

\* C8: containsIDFilter returns, for EQ, whether the identifier operand is
\* "id"; for AND(L,R), the result for L or the result for R; for OR(L,R), the
\* result for L and the result for R; false for any other node and for a
\* missing expression. AND(id==2, junk) is true, AND(junk, junk) false,
\* OR(id==2, junk) false, OR(id==2, id==3) true.
C8_ContainsIDFilterRules ==
    fnOut.type = "BOOL" =>
        /\ fnOut.value = GuaranteesID(fnIn)
        /\ fnIn = newBinaryExpr("LOGICAL_AND", idEq2, junk) => fnOut.value
        /\ fnIn = newBinaryExpr("LOGICAL_AND", junk, junk) => ~fnOut.value
        /\ fnIn = newBinaryExpr("LOGICAL_OR", idEq2, junk) => ~fnOut.value
        /\ fnIn = newBinaryExpr("LOGICAL_OR", idEq2, idEq3) => fnOut.value
        /\ fnIn.type \notin {"EQ", "LOGICAL_AND", "LOGICAL_OR"} => ~fnOut.value

\* C8 witness: the validator has rejected an OR with one unconstrained branch
\* nested under an AND whose other operand is unconstrained too
C8_Witness ==
    /\ fnOut.type = "BOOL"
    /\ fnIn = newBinaryExpr("LOGICAL_AND",
                  newBinaryExpr("LOGICAL_OR", idEq2, junk), junk)
    /\ ~fnOut.value

\* samples of the enter kprobe
EnterSamples ==
    {[f \in syscallEnterEventTypes |->
         IF f = "id" THEN i ELSE IF f = "arg0" THEN a ELSE 0] :
        i \in 1..3, a \in {4, 5}}

\* the constants of the EQ nodes on "id" that occur in e
RECURSIVE IDConstants(_)
IDConstants(e) ==
    IF e.type \in {"LOGICAL_AND", "LOGICAL_OR"}
    THEN IDConstants(e.lhs) \cup IDConstants(e.rhs)
    ELSE IF /\ e.type = "EQ"
            /\ e.lhs.type = "IDENTIFIER" /\ e.lhs.name = "id"
            /\ e.rhs.type = "VALUE"
    THEN {e.rhs.value}
    ELSE {}

\* C9: a filter containsIDFilter accepts matches only samples whose syscall
\* id is the constant of an EQ node on "id" of the filter.
C9_AcceptedFilterBoundsID ==
    (fnOut.type = "BOOL" /\ fnOut.value) =>
        \A s \in EnterSamples :
            Matches(fnIn, s) => s["id"] \in IDConstants(fnIn)

\* C9 witness: an accepted filter that has an OR and matches some sample
C9_Witness ==
    /\ fnOut.type = "BOOL" /\ fnOut.value
    /\ fnIn.type = "LOGICAL_AND"
    /\ fnIn.lhs.type = "LOGICAL_OR"
    /\ \E s \in EnterSamples : Matches(fnIn, s)

\* ---- rewriteSyscallEventFilter (C10)

\* the legacy scalar fields in the order they are rewritten, with the names
\* of the sample fields they constrain
LegacyFields ==
    <<[field |-> "Id", name |-> "id"], [field |-> "Arg0", name |-> "arg0"],
      [field |-> "Arg1", name |-> "arg1"], [field |-> "Arg2", name |-> "arg2"],
      [field |-> "Arg3", name |-> "arg3"], [field |-> "Arg4", name |-> "arg4"],
      [field |-> "Arg5", name |-> "arg5"], [field |-> "Ret", name |-> "ret"]>>

AllLegacy == 1..Len(LegacyFields)

\* the legacy fields that belong to the direction of the spec
Applicable(sef) ==
    {k \in AllLegacy :
        \/ LegacyFields[k].field = "Id"
        \/ sef.Type = "ENTER" /\ LegacyFields[k].field \notin {"Id", "Ret"}
        \/ sef.Type = "EXIT" /\ LegacyFields[k].field = "Ret"}

\* samples carrying every field a filter can name
FullSamples ==
    [{"id", "arg0", "arg1", "arg2", "arg3", "arg4", "arg5", "ret"} -> {4, 5}]
      \cup {[f \in {"id", "arg0", "arg1", "arg2", "arg3", "arg4", "arg5", "ret"}
                |-> IF f = "id" THEN i ELSE IF f = "ret" THEN r ELSE a] :
               i \in {3, 5}, r \in {0, 1}, a \in {4, 6}}

\* the sample satisfies the legacy constraints of sef among the fields F and
\* the expression sef came with
SatisfiesLegacy(sef, F, s) ==
    /\ \A k \in F :
           sef[LegacyFields[k].field] # Unset =>
               s[LegacyFields[k].name] = sef[LegacyFields[k].field][1]
    /\ sef.FilterExpression.type # "NIL" => Matches(sef.FilterExpression, s)

\* the expression the set fields among F build, each as one node
\* AND(field == value, previous) or, with no previous expression, as
\* field == value itself
RECURSIVE FoldLegacy(_, _, _)
FoldLegacy(sef, F, k) ==
    IF k = 0 THEN sef.FilterExpression
    ELSE LET prev == FoldLegacy(sef, F, k - 1)
             fld == LegacyFields[k]
         IN  IF k \notin F \/ sef[fld.field] = Unset THEN prev
             ELSE LET eq == [type |-> "EQ",
                             lhs |-> [type |-> "IDENTIFIER", name |-> fld.name],
                             rhs |-> [type |-> "VALUE",
                                      value |-> sef[fld.field][1]]]
                  IN  IF prev.type = "NIL" THEN eq
                      ELSE [type |-> "LOGICAL_AND", lhs |-> eq, rhs |-> prev]

\* the rewritten spec out is the rewriting of spec in with respect to the
\* legacy fields F: those fields are cleared, and the expression is the fold
\* of their constraints and means their conjunction with the old expression
RewrittenOver(in, out, F) ==
    /\ \A k \in F : out[LegacyFields[k].field] = Unset
    /\ out.Type = in.Type
    /\ out.FilterExpression = FoldLegacy(in, F, Len(LegacyFields))
    /\ IF out.FilterExpression.type = "NIL"
       THEN /\ in.FilterExpression.type = "NIL"
            /\ \A k \in F : in[LegacyFields[k].field] = Unset
       ELSE \A s \in FullSamples :
                Matches(out.FilterExpression, s) <=> SatisfiesLegacy(in, F, s)

\* C10 as stated: after the call every legacy scalar field (id, arg0..arg5,
\* ret) is cleared and the expression is the fold of, and means, every legacy
\* constraint that was set together with the original expression.
C10_AllFieldsRewritten ==
    fnOut.type = "SPEC" => RewrittenOver(fnIn, fnOut.value, AllLegacy)

\* C10 amended: the same for the legacy fields of the spec's direction (id;
\* arg0..arg5 of an enter spec; ret of an exit spec); the other legacy fields
\* keep their values and add nothing to the expression. A spec with id = 5
\* and no expression ends with exactly id == 5.
C10_DirectionFieldsRewritten ==
    fnOut.type = "SPEC" =>
        /\ RewrittenOver(fnIn, fnOut.value, Applicable(fnIn))
        /\ \A k \in AllLegacy \ Applicable(fnIn) :
               fnOut.value[LegacyFields[k].field] = fnIn[LegacyFields[k].field]
        /\ (/\ fnIn.FilterExpression.type = "NIL"
            /\ fnIn.Id = <<5>>
            /\ \A k \in Applicable(fnIn) \ {1} :
                   fnIn[LegacyFields[k].field] = Unset)
             => fnOut.value.FilterExpression = Equal(Identifier("id"), Value(5))

\* C10 witness: an enter spec with id, two arguments and an expression has
\* been rewritten into a three-deep AND with every enter field cleared
C10_Witness ==
    /\ fnOut.type = "SPEC"
    /\ fnIn.Type = "ENTER"
    /\ fnIn.Id # Unset /\ fnIn.Arg0 # Unset /\ fnIn.Arg5 # Unset
    /\ fnIn.FilterExpression.type # "NIL"
    /\ fnOut.value.FilterExpression.type = "LOGICAL_AND"
    /\ fnOut.value.FilterExpression.lhs = Equal(Identifier("arg5"), Value(4))
    /\ fnOut.value.Arg5 = Unset

\* ---------------------------------------------------------------- C11

\* a filter spec none of whose legacy fields is set
NoLegacyField(sef) ==
    \A k \in AllLegacy : sef[LegacyFields[k].field] = Unset

\* C11: rewriteSyscallEventFilter is idempotent: rewriting the spec it has
\* already rewritten gives the same spec as rewriting once, and a spec with
\* no legacy field set comes out unchanged
C11_RewriteIdempotent ==
    /\ fnOut.type = "SPEC2" => fnOut.value = fnOut.once
    /\ (fnOut.type = "SPEC" /\ NoLegacyField(fnIn)) => fnOut.value = fnIn

\* a spec with a legacy field folded by the first rewrite, rewritten twice
C11_Witness ==
    /\ fnOut.type = "SPEC2"
    /\ fnIn.Id # Unset
    /\ fnIn.Type = "ENTER" /\ fnIn.Arg0 # Unset
    /\ fnOut.once # fnIn

\* ---------------------------------------------------------------- C12

\* the samples the probe of a direction can deliver: the fields of the
\* direction, with syscall ids and values on both sides of every constant
\* the filter specs use
SinkSamples(dir) ==
    IF dir = "enter"
    THEN {[f \in syscallEnterEventTypes |->
              IF f = "id" THEN i ELSE IF f = "arg0" THEN a ELSE 0] :
             i \in 1..4, a \in {4, 5}}
    ELSE {[f \in syscallExitEventTypes |->
              IF f = "id" THEN i ELSE r] : i \in 1..4, r \in {0, 1}}

SpecType(dir) == IF dir = "enter" THEN "ENTER" ELSE "EXIT"

\* the validated filter specs of p's request that ask for the direction
Validated(p, dir) ==
    {i \in 1..Len(subscr[p].events) :
        /\ i \notin Rejected(p)
        /\ subscr[p].events[i].Type = SpecType(dir)}

\* the filter p's pass hands (l321, l361) or has handed to addEventSink for
\* the direction; NIL when none
HandedFilter(p, dir) ==
    IF dir = "enter" /\ subscr[p].pc = "l321" THEN subscr[p].enterFilter
    ELSE IF dir = "exit" /\ subscr[p].pc = "l361" THEN subscr[p].exitFilter
    ELSE IF \E es \in subscr[p].eventSinks : es.dir = dir
    THEN (CHOOSE es \in subscr[p].eventSinks : es.dir = dir).filter
    ELSE NIL

\* C12: for each direction the filter handed to addEventSink matches a
\* sample iff at least one validated filter spec of that direction matches
\* it; filter specs of the other direction and rejected ones have no
\* influence.
C12_UnionSemantics ==
    \A p \in Subs : \A dir \in {"enter", "exit"} :
        LET F == HandedFilter(p, dir)
        IN  F.type # "NIL" =>
                \A s \in SinkSamples(dir) :
                    Matches(F, s) <=>
                        \E i \in Validated(p, dir) :
                            Matches(subscr[p].events[i].FilterExpression, s)

\* C12 witness: the enter sink of the request [id = 2, id = 3] matches the
\* syscalls 2 and 3 and rejects 4
C12_Witness ==
    \E p \in Subs : \E es \in subscr[p].eventSinks :
        /\ es.dir = "enter"
        /\ Cardinality(Validated(p, "enter")) = 2
        /\ \A s \in SinkSamples("enter") :
               Matches(es.filter, s) <=> s.id \in {2, 3}

\* ---------------------------------------------------------------- C13

\* the dynamic enter probes registered in the event group of p
EnterProbes(p) == {e \in registered : e.kind = "kprobe" /\ e.group = p}

\* the exit tracepoints registered in the event group of p
ExitTracepoints(p) ==
    {e \in registered :
        /\ e.kind = "tracepoint" /\ e.group = p
        /\ e.name \in {"raw_syscalls/sys_exit", "syscalls/sys_exit"}}

SinksOf(p, dir) == {es \in subscr[p].eventSinks : es.dir = dir}

\* the addEventSink calls p's current pass made for the direction
SinkCalls(p, dir) ==
    {i \in Positions(p, "addEventSink") : subscr[p].calls[i].name = dir}

\* every call p's current pass made succeeded
AllSucceeded(p) == \A i \in 1..Len(subscr[p].calls) : subscr[p].calls[i].ok

\* C13: whatever the number of filter specs, a pass leaves at most one
\* dynamic enter probe and at most one exit tracepoint registered in the
\* event group of the subscription and adds at most one enter and one exit
\* EventSink; exactly one of each for a direction with a validated filter
\* when every registration of the pass succeeds.
C13_OneProbeOneSink ==
    \A p \in Subs :
        /\ Cardinality(EnterProbes(p)) <= 1
        /\ Cardinality(ExitTracepoints(p)) <= 1
        /\ \A dir \in {"enter", "exit"} :
              /\ Cardinality(SinksOf(p, dir)) <= 1
              /\ Cardinality(SinkCalls(p, dir)) <= 1
        /\ (subscr[p].pc = "done" /\ AllSucceeded(p)) =>
              /\ Validated(p, "enter") # {} =>
                    /\ Cardinality(EnterProbes(p)) = 1
                    /\ Cardinality(SinksOf(p, "enter")) = 1
              /\ Validated(p, "exit") # {} =>
                    /\ Cardinality(ExitTracepoints(p)) = 1
                    /\ Cardinality(SinksOf(p, "exit")) = 1

\* C13 witness: a finished pass over two validated enter filter specs, all
\* registrations successful, with its one probe and its one sink
C13_Witness ==
    \E p \in Subs :
        /\ subscr[p].pc = "done" /\ AllSucceeded(p)
        /\ Cardinality(Validated(p, "enter")) = 2
        /\ Cardinality(EnterProbes(p)) = 1
        /\ Cardinality(SinksOf(p, "enter")) = 1

\* ---------------------------------------------------------------- C14

\* the RegisterTracepoint calls of p's current pass for the dummy event, in
\* call order
SentinelCalls(p) ==
    SelectSeq(subscr[p].calls,
              LAMBDA c : /\ c.op = "RegisterTracepoint"
                         /\ c.name \in {"raw_syscalls/sys_enter",
                                        "syscalls/sys_enter"})

\* p's current pass is past the creation of the dummy event (line 294 on)
SentinelOver(p) ==
    subscr[p].pc \notin {"idle", "l264", "l270", "l280", "l281", "close"}

\* C14: on any kernel version, a pass that attempts to create the sentinel
\* tracepoint tries raw_syscalls/sys_enter first and, if that fails, tries
\* syscalls/sys_enter before giving up.
C14_SentinelFallback ==
    \A p \in Subs :
        LET t == SentinelCalls(p)
        IN  /\ Len(t) >= 1 => t[1].name = "raw_syscalls/sys_enter"
            /\ (SentinelOver(p) /\ Len(t) >= 1 /\ ~t[1].ok) =>
                  /\ Len(t) = 2
                  /\ t[2].name = "syscalls/sys_enter"

\* ---------------------------------------------------------------- C15

\* every sentinel candidate p's current pass tried has failed
SentinelFailed(p) ==
    LET t == SentinelCalls(p)
    IN  /\ SentinelOver(p)
        /\ Len(t) >= 1
        /\ \A i \in 1..Len(t) : ~t[i].ok

\* C15: if every sentinel candidate fails in a pass, the enter direction is
\* not monitored for that pass: no dynamic enter probe stays registered, no
\* enter EventSink is added, and a diagnostic naming the last attempted
\* sentinel candidate is logged.
C15_SentinelFailureStopsEnter ==
    \A p \in Subs :
        SentinelFailed(p) =>
            LET t == SentinelCalls(p)
            IN  /\ StatusCount(p, "UNKNOWN", t[Len(t)].name) >= 1
                /\ EnterOver(p) =>
                      /\ EnterProbes(p) = {}
                      /\ SinksOf(p, "enter") = {}
                      /\ SinkCalls(p, "enter") = {}

\* ---------------------------------------------------------------- C16

\* the RegisterTracepoint calls of p's current pass for the exit direction
ExitCalls(p) ==
    SelectSeq(subscr[p].calls,
              LAMBDA c : /\ c.op = "RegisterTracepoint"
                         /\ c.name \in {"raw_syscalls/sys_exit",
                                        "syscalls/sys_exit"})

\* the search for the exit tracepoint of p's current pass is over
ExitSearchOver(p) == subscr[p].pc \in {"l361", "l367", "done"}

\* the enter direction of p's current pass failed: no candidate of the
\* kprobe could be registered, or addEventSink failed and was rolled back
EnterFailed(p) ==
    \/ EnterSinkFailedAt(p) > 0
    \/ (Len(KprobeCalls(p)) = 2 /\ ~KprobeCalls(p)[2].ok)

\* C16: the exit direction is independent of the enter direction: with a
\* non-empty exit union the pass attempts raw_syscalls/sys_exit and, only if
\* that fails, syscalls/sys_exit, whatever happened to the enter direction;
\* if both fail no exit EventSink is added and exactly one UNKNOWN
\* diagnostic naming syscalls/sys_exit is logged; if addEventSink fails the
\* exit tracepoint just registered is unregistered.
C16_ExitIndependent ==
    \A p \in Subs :
        LET x == ExitCalls(p)
            c == subscr[p].calls
        IN  /\ subscr[p].exitFilter.type = "NIL" => x = <<>>
            /\ (subscr[p].pc = "done" /\ subscr[p].exitFilter.type # "NIL")
                  => Len(x) >= 1
            /\ (ExitSearchOver(p) /\ Len(x) >= 1) =>
                  /\ Len(x) \in {1, 2}
                  /\ x[1].name = "raw_syscalls/sys_exit"
                  /\ (Len(x) = 2) <=> ~x[1].ok
                  /\ Len(x) = 2 => x[2].name = "syscalls/sys_exit"
                  /\ ~x[Len(x)].ok =>
                        /\ SinksOf(p, "exit") = {}
                        /\ SinkCalls(p, "exit") = {}
                        /\ ExitTracepoints(p) = {}
                        /\ StatusCount(p, "UNKNOWN", "syscalls/sys_exit") = 1
                        /\ StatusCount(p, "UNKNOWN", "raw_syscalls/sys_exit") = 0
                  /\ x[Len(x)].ok =>
                        /\ StatusCount(p, "UNKNOWN", "syscalls/sys_exit") = 0
                        /\ StatusCount(p, "UNKNOWN", "raw_syscalls/sys_exit") = 0
            /\ (subscr[p].pc = "done" /\
                 \E i \in SinkCalls(p, "exit") : ~c[i].ok) =>
                  /\ SinksOf(p, "exit") = {}
                  /\ ExitTracepoints(p) = {}
                  /\ c[Len(c)].op = "UnregisterEvent"
                  /\ c[Len(c)].id = x[Len(x)].id
                  /\ unregisterCalls[x[Len(x)].id] = 1

\* C16 witness: after a failed enter direction the exit search fell back to
\* syscalls/sys_exit, whose addEventSink then failed and was rolled back
C16_Witness ==
    \E p \in Subs :
        /\ subscr[p].pc = "done"
        /\ EnterFailed(p)
        /\ Len(ExitCalls(p)) = 2 /\ ExitCalls(p)[2].ok
        /\ \E i \in SinkCalls(p, "exit") : ~subscr[p].calls[i].ok
        /\ ExitTracepoints(p) = {}

\* ---------------------------------------------------------------- C17

\* the dummy tracepoints registered in the event group of p
OwnSentinels(p) ==
    {e \in registered :
        /\ e.kind = "tracepoint" /\ e.group = p
        /\ e.name \in {"raw_syscalls/sys_enter", "syscalls/sys_enter"}}

\* the positions of the code that belong to the reference counting
RefCountLabels ==
    {"l280", "l281", "l289", "l291", "l330", "l331", "l336", "l337", "l338"}

\* C17: on a kernel of major version < 3 there is no reference counting: a
\* pass with a non-empty enter filter registers a fresh dummy tracepoint in
\* the subscription's own event group, dummySyscallEventCount and
\* dummySyscallEventID are never changed, no teardown hook is installed on
\* the enter EventSink, and UnregisterEvent is never called on a dummy
\* tracepoint, not on rollback either.
C17_NoRefCountBelow3 ==
    major < 3 =>
        /\ dummySyscallEventCount = 0
        /\ dummySyscallEventID = 0
        /\ SentinelEvents = {}
        /\ \A id \in EventIDs : IsDummyID(id) => unregisterCalls[id] = 0
        /\ \A p \in Subs :
              LET t == SentinelCalls(p)
              IN  /\ subscr[p].pc \notin RefCountLabels
                  /\ Positions(p, "AddInt64") = {}
                  /\ \A es \in subscr[p].eventSinks : ~es.unregister
                  /\ \A e \in OwnSentinels(p) : IsDummyID(e.id)
                  /\ (SentinelOver(p) /\ subscr[p].enterFilter.type # "NIL") =>
                        /\ Len(t) >= 1
                        /\ t[Len(t)].ok =>
                              OwnSentinels(p) =
                                  {NewEvent(NewEventID(p, 1), "tracepoint",
                                            t[Len(t)].name, p)}

\* C17 witness: on a kernel < 3 two subscriptions hold a dummy tracepoint
\* each, in their own groups; one has its enter sink, the other has rolled
\* back a failed addEventSink and still holds its dummy tracepoint
C17_Witness ==
    /\ major < 3
    /\ \E p, q \in Subs :
          /\ p # q
          /\ subscr[p].pc = "done" /\ EnterSinkFailedAt(p) > 0
          /\ Cardinality(OwnSentinels(p)) = 1
          /\ subscr[q].pc = "done" /\ SinksOf(q, "enter") # {}
          /\ Cardinality(OwnSentinels(q)) = 1

\* ---------------------------------------------------------------- C18

\* the i-th filter spec of p's request is covered: it was validated and an
\* EventSink of its direction exists on a registered event
Covered(p, i) ==
    \E dir \in {"enter", "exit"} :
        /\ i \in Validated(p, dir)
        /\ \E es \in SinksOf(p, dir) : es.eventID \in RegisteredIDs

\* p is inside a pass (between the entry of registerSyscallEvents and its
\* return)
InPass(p) ==
    subscr[p].pc \notin {"idle", "done", "l336", "l337", "l338", "close"}

\* C18: no failure is silent: when a pass ends with a requested filter spec
\* that is not covered by a registered EventSink of its direction, at least
\* one diagnostic was logged during the pass; and a pass never gets stuck:
\* from every position inside it a next step exists, up to its return.
C18_NoSilentFailure ==
    \A p \in Subs :
        /\ (subscr[p].pc = "done" /\
             \E i \in 1..Len(subscr[p].events) : ~Covered(p, i))
              => Len(subscr[p].log) >= 1
        /\ InPass(p) => ENABLED Step(p)

\* C18 witness: a finished pass over an enter and an exit filter spec; the
\* enter one is covered, the exit one is not, as both exit tracepoints
\* failed, and the one diagnostic of the pass says so
C18_Witness ==
    \E p \in Subs :
        /\ subscr[p].pc = "done"
        /\ Len(subscr[p].events) = 2
        /\ \E i, j \in 1..2 : Covered(p, i) /\ ~Covered(p, j)
        /\ Validated(p, "exit") # {}
        /\ Len(subscr[p].log) = 1
        /\ subscr[p].log[1].name = "syscalls/sys_exit"

\* ---------------------------------------------------------------- C19

\* the call is a successful registration of the probe of the direction
IsProbeRegistration(c, dir) ==
    /\ c.ok
    /\ IF dir = "enter"
       THEN c.op = "RegisterKprobe"
       ELSE /\ c.op = "RegisterTracepoint"
            /\ c.name \in {"raw_syscalls/sys_exit", "syscalls/sys_exit"}

\* the complete union of the validated filter specs of the direction
CompleteUnion(p, dir) ==
    UnionOf(subscr[p].events, SpecType(dir), Rejected(p),
            Len(subscr[p].events))

\* every addEventSink call of a pass comes right after a successful probe
\* registration of its direction, on that probe, when every filter spec of
\* the request is rewritten and the union is complete; a sink holds the
\* complete union and sits on a registered probe
SinkAfterUnion ==
    \A p \in Subs : \A dir \in {"enter", "exit"} :
        LET c == subscr[p].calls
        IN  /\ \A i \in SinkCalls(p, dir) :
                  /\ i > 1
                  /\ IsProbeRegistration(c[i - 1], dir)
                  /\ c[i].id = c[i - 1].id
            /\ (SinkCalls(p, dir) # {} \/ SinksOf(p, dir) # {}) =>
                  /\ \A k \in 1..Len(subscr[p].events) :
                        rewriteSyscallEventFilter(subscr[p].events[k])
                            = subscr[p].events[k]
                  /\ HandedFilter(p, dir) \in {NIL, CompleteUnion(p, dir)}
            /\ \A es \in SinksOf(p, dir) :
                  /\ es.filter = CompleteUnion(p, dir)
                  /\ es.filter.type # "NIL"
                  /\ \E e \in registered :
                        /\ e.id = es.eventID /\ e.group = p
                        /\ e.kind = IF dir = "enter" THEN "kprobe"
                                                    ELSE "tracepoint"

\* a step keeps the filter of every sink it does not remove, and the filter
\* specs the sink was built from
SinkFilterKept ==
    \A p \in Subs :
        \A es \in subscr[p].eventSinks : \A es2 \in subscr'[p].eventSinks :
            es.dir = es2.dir =>
                /\ es2.filter = es.filter
                /\ subscr'[p].events = subscr[p].events

\* C19: for each direction addEventSink is called only after every filter
\* spec has been rewritten, validated and unioned and after a probe
\* registration for that direction succeeded; the filter the sink is
\* created with is the complete union and is never changed afterwards.
C19_SinkAfterCompleteUnion == []SinkAfterUnion /\ [][SinkFilterKept]_vars

\* C19 witness: a finished pass whose enter sink holds the union of two
\* validated enter filter specs, on its registered kprobe
C19_Witness ==
    \E p \in Subs : \E es \in SinksOf(p, "enter") :
        /\ subscr[p].pc = "done"
        /\ Cardinality(Validated(p, "enter")) = 2
        /\ es.filter.type = "LOGICAL_OR"
        /\ es.filter = CompleteUnion(p, "enter")
        /\ es.eventID \in RegisteredIDs

\* ---------------------------------------------------------------- C20

\* p has a live enter EventSink: added and not yet being torn down
LiveEnterSink(p) ==
    /\ SinksOf(p, "enter") # {}
    /\ subscr[p].pc \notin {"l336", "l337", "l338", "close"}

\* C20: on a kernel of major version >= 3, whenever an enter EventSink of
\* any subscription is live, a sentinel tracepoint is registered, under
\* every interleaving of passes and teardown hooks.
C20_LiveSinkHasSentinel ==
    major >= 3 =>
        ((\E p \in Subs : LiveEnterSink(p)) => SentinelEvents # {})

\* ---------------------------------------------------------------- C21

\* the subscriptions with a live enter EventSink that carries the teardown
\* hook
HookedSubs ==
    {p \in Subs : \E es \in SinksOf(p, "enter") : es.unregister}

\* every subscription is unsubscribed
AllUnsubscribed == \A p \in Subs : subscr[p].pc = "idle"

\* C21: on a kernel of major version >= 3 the sentinel references are
\* balanced: in every quiescent state dummySyscallEventCount equals the
\* number of live enter EventSinks that carry a teardown hook (so a pass
\* that ends without an enter sink leaves the count where it was), and once
\* every subscription has unsubscribed the count is 0 and no sentinel
\* remains registered.
C21_ReferencesBalanced ==
    (major >= 3 /\ Quiescent) =>
        /\ dummySyscallEventCount = Cardinality(HookedSubs)
        /\ AllUnsubscribed =>
              /\ dummySyscallEventCount = 0
              /\ SentinelEvents = {}

\* ---------------------------------------------------------------- C22

\* the syscall ids of the samples of the direction that the filter matches
MatchedIDs(F, dir) == {s.id : s \in {t \in SinkSamples(dir) : Matches(F, t)}}

\* the filters p's current pass is about to pass (l321, l361) or has passed
\* to addEventSink for the direction, whether the call succeeded or not
PassedFilters(p, dir) ==
    LET f == IF dir = "enter" THEN subscr[p].enterFilter
                              ELSE subscr[p].exitFilter
        at == IF dir = "enter" THEN "l321" ELSE "l361"
    IN  {es.filter : es \in SinksOf(p, dir)} \cup
        (IF subscr[p].pc = at \/ SinkCalls(p, dir) # {} THEN {f} ELSE {})

\* C22: every filter registerSyscallEvents passes to addEventSink, enter or
\* exit, satisfies containsIDFilter, for every request: the OR-union of the
\* validated filters is itself accepted by the validator, so no installed
\* filter matches every syscall id (it matches only ids it names).
C22_HandedFilterHasID ==
    \A p \in Subs : \A dir \in {"enter", "exit"} :
        \A F \in PassedFilters(p, dir) :
            /\ containsIDFilter(F)
            /\ MatchedIDs(F, dir) \subseteq IDConstants(F)
            /\ MatchedIDs(F, dir) # {s.id : s \in SinkSamples(dir)}

\* C22 witness: an enter sink on the union of two validated filter specs, one
\* of them an OR tree, from a request; the union names the ids 2 and 3
C22_Witness ==
    \E p \in Subs : \E es \in SinksOf(p, "enter") :
        /\ es.filter \in PassedFilters(p, "enter")
        /\ es.filter.type = "LOGICAL_OR"
        /\ es.filter.rhs.type = "LOGICAL_AND"
        /\ containsIDFilter(es.filter)
        /\ IDConstants(es.filter) = {2, 3}


====
